---- MODULE Spec2Model ----
(***************************************************************************)
(* L.Radar (l.radar.js): a Leaflet path layer drawing an annulus sector.   *)
(*                                                                         *)
(* Numbers.  The source computes in floating point; the model computes in  *)
(* integers on fixed grids:                                                *)
(*   - angles are counted in eighths of pi (Pi == 8), and the arguments    *)
(*     given to the factory are even, so the middle angle is on the grid;  *)
(*   - cos and sin are tabulated in thousandths (TrigScale), so a vertex   *)
(*     coordinate is held in thousandths of a pixel;                       *)
(*   - latitudes and longitudes are whole degrees, a geodesic radius is a  *)
(*     whole number of length units, MetersPerDegree of which make one     *)
(*     degree of arc, so an angular radius is held as a numerator over     *)
(*     MetersPerDegree.                                                    *)
(* An absent JavaScript value (undefined) is the empty sequence None, a    *)
(* present one v is <<v>>.                                                 *)
(***************************************************************************)
EXTENDS Integers, Sequences, FiniteSets, TLC

VARIABLES map, descs, layers, rendered, last, calls, thrown, pd, pp, path2, path1

vars == <<map, descs, layers, rendered, last, calls, thrown, pd, pp, path2, path1>>

None == <<>>
Some(v) == <<v>>

-----------------------------------------------------------------------------
(* Bounds of the model *)

\* largest radius argument given to the factory
MaxRadius == 2
\* largest angle argument given to the factory is 2 * MaxAngle eighths of pi
MaxAngle == 5
\* zoom levels 0 .. MaxZoom
MaxZoom == 1

-----------------------------------------------------------------------------
(* Numbers of the program and of its host *)

\* Math.PI, in eighths of pi
Pi == 8
\* the scale of the cos / sin table
TrigScale == 1000
\* L.CRS.Earth.R * (Math.PI / 180): the length of one degree of arc
MetersPerDegree == 4
\* this._clickTolerance(), the host's hit-test margin
ClickTolerance == 2

Max(a, b) == IF a >= b THEN a ELSE b

\* Math.round of n / den (half rounds up)
Round(n, den) == (2 * n + den) \div (2 * den)

\* Math.cos, for an angle in eighths of pi, in thousandths
Cos(a) ==
    LET k == a % 16
    IN  CASE k = 0 -> 1000  [] k = 1 -> 924   [] k = 2 -> 707   [] k = 3 -> 383
          [] k = 4 -> 0     [] k = 5 -> -383  [] k = 6 -> -707  [] k = 7 -> -924
          [] k = 8 -> -1000 [] k = 9 -> -924  [] k = 10 -> -707 [] k = 11 -> -383
          [] k = 12 -> 0    [] k = 13 -> 383  [] k = 14 -> 707  [] k = 15 -> 924

\* Math.sin, for an angle in eighths of pi, in thousandths
Sin(a) == Cos(a + 12)

\* x || 0 for an optional number
OrZero(x) == IF x = None THEN 0 ELSE x[1]

-----------------------------------------------------------------------------
(* The descriptor: L.Radar.radarDescriptor *)

\* The object built by new RadarDescriptor(...). startAngle and endAngle are
\* the constructor's own arguments, which getPath's closure keeps.
RadarDescriptor(minorRadius, majorRadius, startAngle, endAngle) ==
    [ _minorRadius |-> OrZero(minorRadius),
      _majorRadius |-> OrZero(majorRadius),
      _mRadius     |-> OrZero(majorRadius),
      _nRadius     |-> OrZero(minorRadius),
      _startAngle  |-> OrZero(startAngle),
      _endAngle    |-> OrZero(endAngle),
      _middleAngle |-> (OrZero(startAngle) + OrZero(endAngle)) \div 2,
      type         |-> "RadarDescriptor",
      startAngle   |-> startAngle,
      endAngle     |-> endAngle ]

\* createVertex with the two trigonometric functions exchanged
createVertexSwapped(radius, angle, point) ==
    [ x |-> radius * Sin(angle) + TrigScale * point.x,
      y |-> radius * Cos(angle) + TrigScale * point.y ]

\* createVertex(radius, angle, point), in thousandths of a pixel
createVertex(radius, angle, point) ==
    [ x |-> radius * Cos(angle) + TrigScale * point.x,
      y |-> radius * Sin(angle) + TrigScale * point.y ]

MoveTo(v) == [c |-> "M", x |-> v.x, y |-> v.y]
LineTo(v) == [c |-> "L", x |-> v.x, y |-> v.y]
ArcTo(r, large, sweep, v) ==
    [c |-> "A", rx |-> r, ry |-> r, rot |-> 0, large |-> large, sweep |-> sweep,
     x |-> v.x, y |-> v.y]
ClosePath == [c |-> "Z"]

\* getPath of src/l.radar.js: the path string, one record per command
getPath(d, p) ==
    LET minorRadius == d._minorRadius
        majorRadius == d._majorRadius
        v1 == createVertex(minorRadius, d._startAngle, p)
        v2 == createVertex(majorRadius, d._startAngle, p)
        v3 == createVertex(majorRadius, d._middleAngle, p)
        v4 == createVertex(majorRadius, d._endAngle, p)
        v5 == createVertex(minorRadius, d._endAngle, p)
        v6 == createVertex(minorRadius, d._middleAngle, p)
    IN  << MoveTo(v1), LineTo(v2),
           ArcTo(majorRadius, 0, 1, v3), ArcTo(majorRadius, 0, 1, v4),
           LineTo(v5),
           ArcTo(minorRadius, 0, 0, v6), ArcTo(minorRadius, 0, 0, v1),
           ClosePath >>

\* (endAngle - startAngle) > Math.PI ? 1 : 0 on the constructor's arguments:
\* with an argument undefined the difference is NaN and the test is false
majorArcFlag(startAngle, endAngle) ==
    IF startAngle = None \/ endAngle = None THEN 0
    ELSE IF endAngle[1] - startAngle[1] > Pi THEN 1 ELSE 0

\* getPath of the single-arc file (src/unnamed/part_001)
getPathSingle(d, p) ==
    LET minorRadius == d._minorRadius
        majorRadius == d._majorRadius
        majorArc == majorArcFlag(d.startAngle, d.endAngle)
        firstVertex  == [ x |-> minorRadius * Cos(d._startAngle) + TrigScale * p.x,
                          y |-> minorRadius * Sin(d._startAngle) + TrigScale * p.y ]
        secondVertex == [ x |-> majorRadius * Cos(d._startAngle) + TrigScale * p.x,
                          y |-> majorRadius * Sin(d._startAngle) + TrigScale * p.y ]
        thirdVertex  == [ x |-> majorRadius * Cos(d._endAngle) + TrigScale * p.x,
                          y |-> majorRadius * Sin(d._endAngle) + TrigScale * p.y ]
        fourthVertex == [ x |-> minorRadius * Cos(d._endAngle) + TrigScale * p.x,
                          y |-> minorRadius * Sin(d._endAngle) + TrigScale * p.y ]
    IN  << MoveTo(firstVertex), LineTo(secondVertex),
           ArcTo(majorRadius, majorArc, 1, thirdVertex),
           LineTo(fourthVertex),
           ArcTo(minorRadius, majorArc, 0, firstVertex) >>

-----------------------------------------------------------------------------
(* The host map (Leaflet), as far as the layer uses it *)

\* the two coordinate systems: "Earth" has crs.distance === L.CRS.Earth.distance
\* and a plate-carree projection; "Simple" is the flat one
CRSs == {"Earth", "Simple"}
Zooms == 0 .. MaxZoom
\* map.getPixelOrigin() of the view at a zoom level
PixelOrigin(zoom) == [x |-> -3 * zoom, y |-> 5 * zoom]
Centers == {[lat |-> 0, lng |-> 0], [lat |-> 60, lng |-> 10]}

\* the map's scale at a zoom level: pixels per degree
Scale(zoom) == 2 ^ zoom

\* 1 / Math.cos(lat * d) for the latitudes of Centers
Sec(lat) == IF lat = 0 THEN 1 ELSE 2

\* map.project([lat, lng]) with lat and lng given as numerators over
\* MetersPerDegree; the point is in pixels, over MetersPerDegree too
mapProject(latN, lngN, zoom) == [x |-> lngN * Scale(zoom), y |-> -(latN * Scale(zoom))]

\* map.unproject(p): the inverse of mapProject
mapUnproject(p, zoom) == [lat |-> -(p.y \div Scale(zoom)), lng |-> p.x \div Scale(zoom)]

\* map.latLngToLayerPoint(latlng) = project(latlng)._round()._subtract(getPixelOrigin())
latLngToLayerPoint(m, latlng) ==
    [ x |-> latlng.lng * Scale(m.zoom) - m.origin.x,
      y |-> -(latlng.lat * Scale(m.zoom)) - m.origin.y ]

-----------------------------------------------------------------------------
(* The projection of one radius, as _project computes it *)

\* Math.acos((cos(latR d) - sin(lat d) sin(lat2 d)) / (cos(lat d) cos(lat2 d))) / d:
\* 0 for latR = 0 and lat2 = lat (acos(1)), else its small-angle value
\* latR / cos(lat d), which is also the fallback of lines 86-88
lawOfCosines(latR, lat, lat2N) ==
    IF latR = 0 /\ lat2N = lat * MetersPerDegree THEN 0 ELSE latR * Sec(lat)

\* the spherical branch with a radius of 0 exempt from the floor at 1
sphericalRadiusZeroExempt(r, latlng, zoom) ==
    IF r = 0 THEN 0
    ELSE Max(Round(r * Sec(latlng.lat) * Scale(zoom), MetersPerDegree), 1)

\* The spherical branch for one geodesic radius r: lines 77-91 for _mRadius,
\* lines 93-105 for _nRadius. lngR is NaN only for a NaN operand, which no
\* descriptor of the factory and no center of Centers gives, so the isNaN
\* arm of lines 91 and 105 is not taken.
sphericalRadius(r, latlng, zoom) ==
    LET latR   == r
        latN   == latlng.lat * MetersPerDegree
        lngN   == latlng.lng * MetersPerDegree
        top    == mapProject(latN + latR, lngN, zoom)
        bottom == mapProject(latN - latR, lngN, zoom)
        p      == [x |-> (top.x + bottom.x) \div 2, y |-> (top.y + bottom.y) \div 2]
        lat2   == mapUnproject(p, zoom).lat
        lngR0  == lawOfCosines(latR, latlng.lat, lat2)
        lngR   == IF lngR0 = 0 THEN latR * Sec(latlng.lat) ELSE lngR0
    IN  Max(Round(p.x - mapProject(lat2, lngN - lngR, zoom).x, MetersPerDegree), 1)

\* The non-spherical branch, lines 109-112: crs.project and crs.unproject of
\* the flat system are the identity on (lng, lat)
flatRadius(r, latlng, m) ==
    LET latlng2 == [lat |-> latlng.lat, lng |-> latlng.lng - r]
    IN  latLngToLayerPoint(m, latlng).x - latLngToLayerPoint(m, latlng2).x

-----------------------------------------------------------------------------
(* The layer: L.Radar *)

\* the layers and the descriptor objects of a behaviour
Overlays == {1, 2}
DescIds == {1, 2}

\* L.Radar.prototype.options.radarDescriptor
defaultDescriptor ==
    [_minorRadius |-> 0, _majorRadius |-> 0, _startAngle |-> 0, _endAngle |-> 0,
     type |-> "Object"]

\* a descriptor reference: 0 is the prototype's default object, i > 0 is the
\* i-th object the factory built
Deref(ds, ref) == IF ref = 0 THEN defaultDescriptor ELSE ds[ref]

NoLayer ==
    [made |-> FALSE, _latlng |-> [lat |-> 0, lng |-> 0], _radarDescriptor |-> 0,
     _map |-> FALSE, _point |-> None, _pxBounds |-> None]

Log(w, name) == [w EXCEPT !.calls = Append(@, name)]

\* _updateBounds
_updateBounds(w, o) ==
    LET r  == Deref(w.descs, w.layers[o]._radarDescriptor)._majorRadius
        cw == ClickTolerance
        p  == [x |-> r + cw, y |-> r + cw]
        pt == w.layers[o]._point[1]
        lo == [x |-> pt.x - p.x, y |-> pt.y - p.y]
    IN  [Log(w, "_updateBounds") EXCEPT
            !.layers[o]._pxBounds = Some([min |-> lo, max |-> lo])]

\* _project
_project(w, m, o) ==
    LET ly   == w.layers[o]
        ref  == ly._radarDescriptor
        d    == w.descs[ref]
        newd == IF m.crs = "Earth"
                THEN [d EXCEPT
                        !._majorRadius = sphericalRadius(d._mRadius, ly._latlng, m.zoom),
                        !._minorRadius = sphericalRadius(d._nRadius, ly._latlng, m.zoom)]
                ELSE [d EXCEPT
                        !._majorRadius = flatRadius(d._mRadius, ly._latlng, m)]
        w1   == [Log(w, "_project") EXCEPT
                    !.descs[ref] = newd,
                    !.layers[o]._point = Some(latLngToLayerPoint(m, ly._latlng))]
    IN  _updateBounds(w1, o)

\* _updatePath: the renderer is handed the layer and the path
_updatePath(w, m, o) ==
    LET ly == w.layers[o]
        d  == Deref(w.descs, ly._radarDescriptor)
    IN  [Log(w, "_setPath") EXCEPT
            !.rendered[o] = Some([path |-> getPath(d, ly._point[1]),
                                  minorRadius |-> d._minorRadius,
                                  majorRadius |-> d._majorRadius,
                                  nRadius |-> d._nRadius,
                                  mRadius |-> d._mRadius,
                                  latlng |-> ly._latlng,
                                  view |-> m])]

\* _update
_update(w, m, o) == IF w.layers[o]._map THEN _updatePath(w, m, o) ELSE w

\* L.Path.redraw: if (this._map) this._renderer._updatePath(this), which is
\* layer._project() then layer._update()
redraw(w, m, o) ==
    IF w.layers[o]._map THEN _update(_project(w, m, o), m, o) ELSE w

\* setLatLng redrawing before it stores the new center
setLatLngStale(w, m, o, latlng) ==
    [redraw(w, m, o) EXCEPT !.layers[o]._latlng = latlng]

\* setLatLng
setLatLng(w, m, o, latlng) ==
    redraw([w EXCEPT !.layers[o]._latlng = latlng], m, o)

\* setRadarDescriptor
setRadarDescriptor(w, o, ref) == [w EXCEPT !.layers[o]._radarDescriptor = ref]

\* setStyle: options is None (undefined) or Some([radarDescriptor |-> ...]).
\* L.Path.prototype.setStyle merges the options and restyles the element
\* (renderer._updateStyle); it neither projects nor rebuilds the path.
setStyle(w, o, options) ==
    LET cur == w.layers[o]._radarDescriptor
        radarDescriptor ==
            IF options # None /\ options[1].radarDescriptor # None
            THEN options[1].radarDescriptor[1] ELSE cur
    IN  setRadarDescriptor(Log(w, "_updateStyle"), o, radarDescriptor)

\* initialize: the reference the new layer keeps, or None when the
\* constructor throws a TypeError (options.radarDescriptor read on undefined,
\* or .type read on an undefined radarDescriptor)
initialize(ds, options) ==
    LET thisOptions ==  \* L.setOptions(this, options)
            [radarDescriptor |->
                IF options # None /\ options[1].radarDescriptor # None
                THEN options[1].radarDescriptor[1] ELSE 0]
    IN  IF options = None THEN None
        ELSE IF options[1].radarDescriptor = None THEN None
        ELSE IF Deref(ds, options[1].radarDescriptor[1]).type = "RadarDescriptor"
             THEN Some(options[1].radarDescriptor[1])
             ELSE Some(thisOptions.radarDescriptor)

-----------------------------------------------------------------------------
(* The state machine of the layer on its map *)

\* the arguments the behaviours give to the factory
RadiusArgs == {None} \cup {Some(r) : r \in 0 .. MaxRadius}
AngleArgs == {None} \cup {Some(2 * a) : a \in 0 .. MaxAngle}

\* the options objects given to L.radar and to setStyle: undefined, an
\* object without a radarDescriptor, an object with one built by the factory
OptionArgs(ds) ==
    {None, Some([radarDescriptor |-> None])}
        \cup {Some([radarDescriptor |-> Some(ref)]) : ref \in 1 .. Len(ds)}

World == [descs |-> descs, layers |-> layers, rendered |-> rendered, calls |-> <<>>]

\* the state after a call that returned
Returns(w, op, o, withDescriptor) ==
    /\ descs' = w.descs
    /\ layers' = w.layers
    /\ rendered' = w.rendered
    /\ calls' = w.calls
    /\ last' = [op |-> op, o |-> o, withDescriptor |-> withDescriptor]
    /\ thrown' = "none"
    /\ UNCHANGED <<pd, pp, path2, path1>>

Attached == {o \in Overlays : layers[o].made /\ layers[o]._map}

Init ==
    /\ map \in [crs : CRSs, zoom : {0}, origin : {PixelOrigin(0)}]
    /\ descs = <<>>
    /\ layers = [o \in Overlays |-> NoLayer]
    /\ rendered = [o \in Overlays |-> None]
    /\ last = [op |-> "none", o |-> 0, withDescriptor |-> FALSE]
    /\ calls = <<>>
    /\ thrown = "none"
    /\ pd = None /\ pp = [x |-> 0, y |-> 0] /\ path2 = None /\ path1 = None

\* L.Radar.radarDescriptor(minorRadius, majorRadius, startAngle, endAngle)
NewDescriptor ==
    /\ Len(descs) < Cardinality(DescIds)
    /\ \E minorRadius \in {None, Some(1)}, majorRadius \in RadiusArgs :
          Returns([World EXCEPT !.descs =
                       Append(descs, RadarDescriptor(minorRadius, majorRadius,
                                                     Some(0), Some(2 * MaxAngle)))],
                  "radarDescriptor", 0, FALSE)
    /\ UNCHANGED map

\* L.radar(latlng, options): new L.Radar(latlng, options)
NewRadar(o) ==
    \E latlng \in Centers, options \in OptionArgs(descs) :
        /\ ~layers[o].made
        /\ LET ref == initialize(descs, options)
               withDescriptor == options # None /\ options[1].radarDescriptor # None
           IN  IF ref = None
               THEN /\ thrown' = "TypeError"
                    /\ last' = [op |-> "initialize", o |-> o, withDescriptor |-> withDescriptor]
                    /\ calls' = <<>>
                    /\ UNCHANGED <<descs, layers, rendered, pd, pp, path2, path1>>
               ELSE Returns([World EXCEPT !.layers[o] =
                                [NoLayer EXCEPT !.made = TRUE, !._latlng = latlng,
                                                !._radarDescriptor = ref[1]]],
                            "initialize", o, withDescriptor)
        /\ UNCHANGED map

\* layer.addTo(map): the host sets _map and calls onAdd, which is
\* _reset: _project() then _update()
AddTo(o) ==
        /\ layers[o].made /\ ~layers[o]._map
        /\ Returns(redraw([World EXCEPT !.layers[o]._map = TRUE], map, o), "addTo", o, FALSE)
        /\ UNCHANGED map

SetLatLng(o) ==
    \E latlng \in Centers :
        /\ layers[o].made
        /\ Returns(setLatLng(World, map, o, latlng), "setLatLng", o, FALSE)
        /\ UNCHANGED map

SetStyle(o) ==
    \E options \in OptionArgs(descs) :
        /\ layers[o].made
        /\ Returns(setStyle(World, o, options), "setStyle", o,
                   options # None /\ options[1].radarDescriptor # None)
        /\ UNCHANGED map

\* the first of a set of layers, in the order of the layer ids
First(todo) == CHOOSE x \in todo : \A y \in todo : x <= y

\* every layer of todo, in the order of the layer ids, runs _project
RECURSIVE projectAll(_, _, _)
projectAll(w, m, todo) ==
    IF todo = {} THEN w
    ELSE projectAll(_project(w, m, First(todo)), m, todo \ {First(todo)})

\* every layer of todo, in the order of the layer ids, runs _update
RECURSIVE updateAll(_, _, _)
updateAll(w, m, todo) ==
    IF todo = {} THEN w
    ELSE updateAll(_update(w, m, First(todo)), m, todo \ {First(todo)})

\* the map changes its view (zoom, pixel origin): the host's zoomend makes
\* every attached layer _project, its moveend makes every one _update
SetView ==
    \E zoom \in Zooms :
        /\ zoom # map.zoom
        /\ map' = [map EXCEPT !.zoom = zoom, !.origin = PixelOrigin(zoom)]
        /\ Returns(updateAll(projectAll(World, map', Attached), map', Attached),
                   "setView", 0, FALSE)

\* the map is panned: the host's moveend makes every attached layer _update
MoveEnd ==
    /\ Attached # {}
    /\ Returns(updateAll(World, map, Attached), "moveEnd", 0, FALSE)
    /\ UNCHANGED map

\* one layer on the map, restyled with the descriptors the factory builds
Next ==
    \/ NewDescriptor
    \/ NewRadar(1)
    \/ AddTo(1)
    \/ SetLatLng(1)
    \/ SetStyle(1)
    \/ SetView
    \/ MoveEnd

Spec == Init /\ [][Next]_vars

\* two layers on the map, built from one descriptor object
InitShared ==
    /\ map \in [crs : CRSs, zoom : {0}, origin : {PixelOrigin(0)}]
    /\ descs = <<RadarDescriptor(Some(1), Some(MaxRadius), Some(0), Some(2 * MaxAngle))>>
    /\ layers = [o \in Overlays |-> NoLayer]
    /\ rendered = [o \in Overlays |-> None]
    /\ last = [op |-> "none", o |-> 0, withDescriptor |-> FALSE]
    /\ calls = <<>>
    /\ thrown = "none"
    /\ pd = None /\ pp = [x |-> 0, y |-> 0] /\ path2 = None /\ path1 = None

NextShared ==
    \/ NewRadar(1)
    \/ NewRadar(2)
    \/ AddTo(1)
    \/ AddTo(2)
    \/ SetLatLng(1)
    \/ SetLatLng(2)
    \/ SetView
    \/ MoveEnd

SpecShared == InitShared /\ [][NextShared]_vars

-----------------------------------------------------------------------------
(* getPath on its own: the descriptor is any the factory builds, the anchor *)
(* any of Anchors                                                          *)

Anchors == {[x |-> 0, y |-> 0], [x |-> 3, y |-> -2]}

PathInit ==
    /\ map = [crs |-> "Earth", zoom |-> 0, origin |-> PixelOrigin(0)]
    /\ descs = <<>>
    /\ layers = [o \in Overlays |-> NoLayer]
    /\ rendered = [o \in Overlays |-> None]
    /\ last = [op |-> "none", o |-> 0, withDescriptor |-> FALSE]
    /\ calls = <<>>
    /\ thrown = "none"
    /\ pd \in {Some(RadarDescriptor(minorRadius, majorRadius, startAngle, endAngle)) :
                  minorRadius \in RadiusArgs, majorRadius \in RadiusArgs,
                  startAngle \in AngleArgs, endAngle \in AngleArgs}
    /\ pp \in Anchors
    /\ path2 = None /\ path1 = None

PathFrame == UNCHANGED <<map, descs, layers, rendered, last, calls, thrown>>

\* descriptor.getPath(p) of src/l.radar.js
PathGet ==
    /\ pd # None
    /\ path2' = Some(getPath(pd[1], pp))
    /\ UNCHANGED <<pd, pp, path1>>
    /\ PathFrame

\* descriptor.getPath(p) of the single-arc file
PathGetSingle ==
    /\ pd # None
    /\ path1' = Some(getPathSingle(pd[1], pp))
    /\ UNCHANGED <<pd, pp, path2>>
    /\ PathFrame

PathNext == PathGet \/ PathGetSingle

PathSpec == PathInit /\ [][PathNext]_vars

-----------------------------------------------------------------------------
(* The claims *)

CalledIn(cs, name) == \E i \in 1 .. Len(cs) : cs[i] = name
Called(name) == CalledIn(calls, name)
Count(name) == Cardinality({i \in 1 .. Len(calls) : calls[i] = name})

\* the pixel radius of geodesic radius r for a center and a view, by the
\* branch of _project the view's coordinate system selects
ProjectedRadius(r, latlng, m) ==
    IF m.crs = "Earth" THEN sphericalRadius(r, latlng, m.zoom) ELSE flatRadius(r, latlng, m)

DescOf(o) == Deref(descs, layers[o]._radarDescriptor)

\* the layers the last operation projected
Projected == {o \in Overlays : layers[o].made /\ layers[o]._map /\ Called("_project")
                               /\ last.o \in {0, o}}

\* C1: when setStyle is given a radarDescriptor on an attached layer, then
\* before it returns the pixel radii are projected from the new descriptor's
\* geodesic radii and a path built from the new descriptor is handed to the
\* renderer.
C1_StyleChangeRecomputes ==
    (last.op = "setStyle" /\ last.withDescriptor /\ layers[last.o]._map) =>
        LET o == last.o
            d == DescOf(o)
        IN  /\ Called("_project")
            /\ Called("_setPath")
            /\ d._minorRadius = ProjectedRadius(d._nRadius, layers[o]._latlng, map)
            /\ d._majorRadius = ProjectedRadius(d._mRadius, layers[o]._latlng, map)
            /\ rendered[o] # None
            /\ rendered[o][1].path = getPath(d, layers[o]._point[1])

\* C2: on an attached layer, a call of setLatLng makes exactly one projection
\* pass followed by exactly one hand-off of the path to the renderer, and
\* afterwards the anchor is the host's latLngToLayerPoint of the new center.
C2_SetLatLngRefreshesOnce ==
    (last.op = "setLatLng" /\ layers[last.o]._map) =>
        LET o == last.o
        IN  /\ Count("_project") = 1
            /\ Count("_setPath") = 1
            /\ \A i, j \in 1 .. Len(calls) :
                  (calls[i] = "_project" /\ calls[j] = "_setPath") => i < j
            /\ layers[o]._point = Some(latLngToLayerPoint(map, layers[o]._latlng))
            /\ rendered[o] # None
            /\ rendered[o][1].latlng = layers[o]._latlng

\* C2 witness: setLatLng has moved an attached layer to the second center at
\* zoom 1, and its path has been handed over.
C2_Witness ==
    /\ last.op = "setLatLng"
    /\ layers[last.o]._map
    /\ layers[last.o]._latlng = [lat |-> 60, lng |-> 10]
    /\ map.zoom = 1
    /\ layers[last.o]._point = Some([x |-> 23, y |-> -125])
    /\ rendered[last.o] # None

\* C3: whenever a path is handed to the renderer, the inner and outer pixel
\* radii it is built from are the projections of the descriptor's geodesic
\* radii for the layer's center and the view at that moment.
C3_PathUsesFreshRadii ==
    \A o \in Overlays :
        rendered[o] # None =>
            LET r == rendered[o][1]
            IN  /\ r.minorRadius = ProjectedRadius(r.nRadius, r.latlng, r.view)
                /\ r.majorRadius = ProjectedRadius(r.mRadius, r.latlng, r.view)

PixelRadiiOf(ds, ls, o) ==
    LET d == Deref(ds, ls[o]._radarDescriptor)
    IN  <<d._minorRadius, d._majorRadius>>

\* C4: a projection pass of one layer (addTo, setLatLng) leaves unchanged the
\* pixel radii every other attached layer uses for its next path.
C4_ProjectionLeavesOthersAlone ==
    [][ \A a \in Overlays :
          (last'.op \in {"addTo", "setLatLng"} /\ last'.o = a /\ CalledIn(calls', "_project")) =>
              \A b \in Overlays \ {a} :
                  (layers[b].made /\ layers[b]._map) =>
                      PixelRadiiOf(descs', layers', b) = PixelRadiiOf(descs, layers, b) ]_vars

\* C5: after a projection pass the bounding box is the square around the
\* anchor with half-width outer pixel radius + click tolerance.
C5_BoundsAreCenteredSquare ==
    \A o \in Projected :
        LET h  == DescOf(o)._majorRadius + ClickTolerance
            pt == layers[o]._point[1]
        IN  layers[o]._pxBounds =
                Some([min |-> [x |-> pt.x - h, y |-> pt.y - h],
                      max |-> [x |-> pt.x + h, y |-> pt.y + h]])

\* C6 as stated: in the spherical branch a geodesic radius of 0 projects to a
\* pixel radius of 0.
C6_ZeroRadiusProjectsToZero ==
    \A o \in Projected :
        map.crs = "Earth" =>
            /\ DescOf(o)._mRadius = 0 => DescOf(o)._majorRadius = 0
            /\ DescOf(o)._nRadius = 0 => DescOf(o)._minorRadius = 0

\* C6 amended: in the spherical branch a geodesic radius of 0 projects to a
\* pixel radius of 1, the floor, for every center and view.
C6_ZeroRadiusProjectsToFloor ==
    \A o \in Projected :
        map.crs = "Earth" =>
            /\ DescOf(o)._mRadius = 0 => DescOf(o)._majorRadius = 1
            /\ DescOf(o)._nRadius = 0 => DescOf(o)._minorRadius = 1

\* C6 witness: a descriptor with both geodesic radii 0 has been projected in
\* the spherical branch at latitude 60 and zoom 1.
C6_Witness ==
    \E o \in Projected :
        /\ map.crs = "Earth" /\ map.zoom = 1
        /\ layers[o]._latlng.lat = 60
        /\ DescOf(o)._mRadius = 0 /\ DescOf(o)._nRadius = 0
        /\ DescOf(o)._majorRadius = 1 /\ DescOf(o)._minorRadius = 1

\* C7: L.radar called without options, or with options that have no
\* radarDescriptor, returns a layer whose descriptor is the default zero
\* descriptor.
C7_DefaultDescriptorWhenOmitted ==
    (last.op = "initialize" /\ ~last.withDescriptor) =>
        /\ thrown = "none"
        /\ layers[last.o].made
        /\ DescOf(last.o) = defaultDescriptor

\* C8: in the single-arc path the large-arc flag of the outer arc is 1 iff
\* the descriptor's endAngle - startAngle exceeds pi.
C8_LargeArcFlagFromDescriptorAngles ==
    path1 # None =>
        path1[1][3].large = (IF pd[1]._endAngle - pd[1]._startAngle > Pi THEN 1 ELSE 0)

\* the vertex of radius r at angle a around the anchor pp
Vertex(r, a) ==
    [x |-> r * Cos(a) + TrigScale * pp.x, y |-> r * Sin(a) + TrigScale * pp.y]

At(cmd, v) == cmd.x = v.x /\ cmd.y = v.y

\* C9: each path goes inner point at startAngle, outer point at startAngle,
\* outer point at endAngle, inner point at endAngle, and its last arc ends
\* where its moveto started; every vertex is (r cos a + p.x, r sin a + p.y);
\* with inner radius 0 the same commands are produced, the inner vertices
\* being the anchor.
C9_PathVisitsVerticesAndCloses ==
    LET d == pd[1]
        anchor == [x |-> TrigScale * pp.x, y |-> TrigScale * pp.y]
    IN  /\ path2 # None =>
            LET q == path2[1]
            IN  /\ [i \in 1 .. Len(q) |-> q[i].c] = <<"M", "L", "A", "A", "L", "A", "A", "Z">>
                /\ At(q[1], Vertex(d._minorRadius, d._startAngle))
                /\ At(q[2], Vertex(d._majorRadius, d._startAngle))
                /\ At(q[3], Vertex(d._majorRadius, d._middleAngle))
                /\ At(q[4], Vertex(d._majorRadius, d._endAngle))
                /\ At(q[5], Vertex(d._minorRadius, d._endAngle))
                /\ At(q[6], Vertex(d._minorRadius, d._middleAngle))
                /\ At(q[7], q[1])
                /\ d._minorRadius = 0 => (At(q[1], anchor) /\ At(q[5], anchor))
        /\ path1 # None =>
            LET q == path1[1]
            IN  /\ [i \in 1 .. Len(q) |-> q[i].c] = <<"M", "L", "A", "L", "A">>
                /\ At(q[1], Vertex(d._minorRadius, d._startAngle))
                /\ At(q[2], Vertex(d._majorRadius, d._startAngle))
                /\ At(q[3], Vertex(d._majorRadius, d._endAngle))
                /\ At(q[4], Vertex(d._minorRadius, d._endAngle))
                /\ At(q[5], q[1])
                /\ d._minorRadius = 0 => (At(q[1], anchor) /\ At(q[4], anchor))

\* C9 witness: both constructions have built the path of a descriptor with
\* inner radius 0, outer radius 2 and angles pi/4 .. 5 pi/4 at an anchor off
\* the origin.
C9_Witness ==
    /\ path2 # None /\ path1 # None
    /\ pd[1]._minorRadius = 0 /\ pd[1]._majorRadius = 2
    /\ pd[1]._startAngle = 2 /\ pd[1]._endAngle = 10
    /\ pp = [x |-> 3, y |-> -2]
    /\ At(path2[1][4], [x |-> 1586, y |-> -3414])

\* C10: a projection pass, in either branch, sets both pixel radii to the
\* projections of the geodesic radii for the current center and view, and
\* leaves the geodesic radii unchanged.
C10_ProjectionSetsBothRadii ==
    [][ \A o \in Overlays :
          (layers'[o].made /\ layers'[o]._map /\ CalledIn(calls', "_project") /\ last'.o \in {0, o}) =>
              LET ref == layers'[o]._radarDescriptor
                  d   == descs'[ref]
              IN  /\ d._minorRadius = ProjectedRadius(d._nRadius, layers'[o]._latlng, map')
                  /\ d._majorRadius = ProjectedRadius(d._mRadius, layers'[o]._latlng, map')
                  /\ d._nRadius = descs[ref]._nRadius
                  /\ d._mRadius = descs[ref]._mRadius ]_vars

====
